---- MODULE Spec2Model ----
(***************************************************************************)
(* horseCAD, src-tauri/src/lib.rs: the compile_script command.  A request  *)
(* evaluates a Rhai script (draw / set_scale closures over two per-call    *)
(* cells), builds a shape, applies the scale/center transform, builds the  *)
(* octree, extracts the mesh and exports it as STL, emitting progress      *)
(* notices on the way.  Requests are tauri async commands and may run      *)
(* concurrently.                                                           *)
(***************************************************************************)
EXTENDS Integers, Sequences, FiniteSets, TLC

\* ---------------------------------------------------------------- bounds
\* longest script (number of capability calls) of a lone request
MaxLen == 2
\* longest script of each of two concurrent requests
MaxLenConc == 2
\* half-width, in grid cells, of the cube the mesher samples
DomainHalf == 2

\* ------------------------------------------------------------ data model
Reqs == {"r1", "r2"}

\* Option<T>
None == << >>
Some(x) == << x >>
IsSome(o) == o # << >>
Unwrap(o) == o[1]
UnwrapOr(o, d) == IF o = << >> THEN d ELSE o[1]

Trees == {"A", "B"}
\* zero set of the implicit function of a tree, in shape coordinates
Surface(tree) ==
  IF tree = "A" THEN { <<0, 0, 0>>, <<1, 0, 0>> }
  ELSE { <<2, 0, 0>>, <<0, 0 - 1, 0>> }

\* rhai Dynamic values handed to the closures
DynTree(t) == [kind |-> "tree", tree |-> t, num |-> 0]
DynFloat(n) == [kind |-> "float", tree |-> "-", num |-> n]
DynStr == [kind |-> "str", tree |-> "-", num |-> 0]

ScaleVals == {1, 2}

\* one capability call of a script; caught = the call sits in a try/catch
Call(fn, arg, caught) == [fn |-> fn, arg |-> arg, caught |-> caught]

DrawArgs == {DynTree(t) : t \in Trees} \cup {DynStr}
ScaleArgs == {DynFloat(n) : n \in ScaleVals} \cup {DynStr}

Calls ==
  {Call("draw", a, c) : a \in DrawArgs, c \in BOOLEAN}
    \cup {Call("set_scale", a, c) : a \in ScaleArgs, c \in BOOLEAN}

\* calls of the scripts of concurrent requests
CallsConc ==
  {Call("draw", DynTree(t), FALSE) : t \in Trees}
    \cup {Call("set_scale", DynFloat(2), FALSE)}

SeqsUpTo(S, n) == UNION {[1 .. k -> S] : k \in 0 .. n}

\* ------------------------------------------------------- error messages
MultipleOutputs == "can only draw one shape"
NoOutputProduced == "script must include a draw(tree) call"
BadTree == "cannot convert to Tree"
BadScale == "scale must be a float"

\* format!("<prefix>: {}", e)
Format(prefix, e) == << prefix, e >>

\* ------------------------------------------------------------ MeshResult
MeshResult(success, stl, tc, err) ==
  [success |-> success, stl_data |-> stl, triangle_count |-> tc, error |-> err]

ScriptErrorResult(msg) == MeshResult(FALSE, None, None, Some(msg))

ShapeErrorResult(msg) == MeshResult(FALSE, None, None, Some(msg))

ExportErrorResultWithData(tc, msg) ==
  MeshResult(FALSE, Some([count |-> tc, body |-> {}]), Some(tc), Some(msg))

ExportErrorResultNoCount(tc, msg) == MeshResult(FALSE, None, None, Some(msg))

ExportErrorResult(tc, msg) == MeshResult(FALSE, None, Some(tc), Some(msg))

SuccessResult(stl, tc) == MeshResult(TRUE, Some(stl), Some(tc), None)

\* -------------------------------------------------------------- emit_log
\* emit_log returns () to its caller whether or not the notice was delivered
EmitLogAborting(delivered) == delivered

emit_log(delivered) == TRUE

EmitAll(pat) == \A i \in DOMAIN pat : emit_log(pat[i])

AnyFailed(pat) == \E i \in DOMAIN pat : ~pat[i]

\* ------------------------------------------------- closures of the engine
\* the draw closure: convert the argument, then test and fill the slot
DrawOverwrite(slot, d) ==
  IF d.kind # "tree" THEN [res |-> BadTree, out |-> slot]
  ELSE [res |-> "ok", out |-> Some(d.tree)]

draw(slot, d) ==
  IF d.kind # "tree" THEN [res |-> BadTree, out |-> slot]
  ELSE IF IsSome(slot) THEN [res |-> MultipleOutputs, out |-> slot]
  ELSE [res |-> "ok", out |-> Some(d.tree)]

\* the set_scale closure
set_scale(cell, d) ==
  IF d.kind = "float" THEN [res |-> "ok", scale |-> d.num]
  ELSE [res |-> BadScale, scale |-> cell]

\* the cells a compile_rhai_script call allocates and its closures capture
OutCellStatic(r) == "r1"

OutCell(r) == r

ScaleCell(r) == r

\* ------------------------------------------------------------- transform
\* affine map p |-> (n * p + b) / d on each coordinate
Affine(n, d, b) == [n |-> n, d |-> d, b |-> b]

\* Scale3::new(1/s, 1/s, 1/s).to_homogeneous()
ScaleInv(s) == Affine(1, s, <<0, 0, 0>>)

\* Translation3::new(-c0, -c1, -c2).to_homogeneous()
TranslateNeg(c) == Affine(1, 1, <<0 - c[1], 0 - c[2], 0 - c[3]>>)

\* matrix product a * b: apply b first, then a
MatMul(a, b) ==
  Affine(a.n * b.n, a.d * b.d,
         [i \in 1 .. 3 |-> a.n * b.b[i] + b.d * a.b[i]])

MakeTransformScaleLast(scale, center) ==
  MatMul(ScaleInv(scale), TranslateNeg(center))

MakeTransform(scale, center) ==
  MatMul(TranslateNeg(center), ScaleInv(scale))

\* --------------------------------------------------------------- meshing
Grid ==
  (0 - DomainHalf .. DomainHalf) \X (0 - DomainHalf .. DomainHalf)
    \X (0 - DomainHalf .. DomainHalf)

\* the transformed shape is zero at p when the tree is zero at t * p
OnSurface(shape, p) ==
  \E q \in Surface(shape.tree) :
    \A i \in 1 .. 3 : shape.t.n * p[i] + shape.t.b[i] = shape.t.d * q[i]

\* Octree::build over the default domain
OctreeBuild(shape, depth) == [shape |-> shape, depth |-> depth]

\* walk_dual: the surface cells of the domain, one triangle per cell
WalkDualOf(octree) ==
  LET vs == {p \in Grid : OnSurface(octree.shape, p)}
  IN [vertices |-> vs, triangles |-> Cardinality(vs)]

\* write_stl into a Vec: triangle count, then the triangles
WriteStl(mesh) == [count |-> mesh.triangles, body |-> mesh.vertices]

\* lines 198-215: take the slot, read the scale, import the tree
ExtractResultDefaulting(slot, cell) ==
  [ok |-> TRUE, root |-> UnwrapOr(slot, "A"), scale |-> cell,
   err |-> NoOutputProduced]

ExtractResult(slot, cell) ==
  IF IsSome(slot)
  THEN [ok |-> TRUE, root |-> Unwrap(slot), scale |-> cell, err |-> "-"]
  ELSE [ok |-> FALSE, root |-> "-", scale |-> cell, err |-> NoOutputProduced]

\* ----------------------------------------------------------------- state
VARIABLES
  active,      \* requests the frontend issues
  req,         \* req[r]: code, depth, scale, center as passed to the command
  env,         \* env[r]: whether VmShape::new and write_stl succeed
  pc,          \* position of each compile_script call
  ip,          \* index of the next capability call of the running script
  out,         \* the Arc<Mutex<Option<Tree>>> cells
  scl,         \* the Arc<Mutex<f32>> cells
  root,        \* root node returned by compile_rhai_script
  factor,      \* the `scale` bound by the let at line 66
  shape,       \* the VmShape with its transform
  octree,
  mesh,
  stages,      \* pipeline stages entered, in order
  response,    \* the MeshResult returned
  emitFailed   \* some notice of the call was not delivered

vars ==
  << active, req, env, pc, ip, out, scl, root, factor, shape, octree, mesh,
     stages, response, emitFailed >>

inputs == << active, req, env >>

Identity == Affine(1, 1, <<0, 0, 0>>)

DefaultCenter == <<0, 0, 0>>

Depths == {0, 1}
ReqScales == {None, Some(2)}
Centers == {None, Some(<<0 - 1, 0, 0>>)}

Request(code, depth, scale, center) ==
  [code |-> code, depth |-> depth, scale |-> scale, center |-> center]

Requests ==
  {Request(c, d, s, ctr) :
     c \in SeqsUpTo(Calls, MaxLen), d \in Depths, s \in ReqScales,
     ctr \in Centers}

RequestsConc ==
  {Request(c, 1, None, None) : c \in SeqsUpTo(CallsConc, MaxLenConc)}

Envs == [shapeOk : BOOLEAN, exportOk : BOOLEAN]

EnvOk == [shapeOk |-> TRUE, exportOk |-> TRUE]

InitRun ==
  /\ pc = [r \in Reqs |-> "idle"]
  /\ ip = [r \in Reqs |-> 1]
  /\ out = [r \in Reqs |-> None]
  /\ scl = [r \in Reqs |-> 1]
  /\ root = [r \in Reqs |-> None]
  /\ factor = [r \in Reqs |-> None]
  /\ shape = [r \in Reqs |-> None]
  /\ octree = [r \in Reqs |-> None]
  /\ mesh = [r \in Reqs |-> None]
  /\ stages = [r \in Reqs |-> << >>]
  /\ response = [r \in Reqs |-> None]
  /\ emitFailed = [r \in Reqs |-> FALSE]

\* one request at a time
Init ==
  /\ active = {"r1"}
  /\ \E q \in Requests :
       req = [r \in Reqs |-> IF r = "r1" THEN q
                              ELSE Request(<< >>, 0, None, None)]
  /\ \E e \in Envs : env = [r \in Reqs |-> IF r = "r1" THEN e ELSE EnvOk]
  /\ InitRun

\* two requests in flight together
InitConc ==
  /\ active = Reqs
  /\ req \in [Reqs -> RequestsConc]
  /\ env = [r \in Reqs |-> EnvOk]
  /\ InitRun

\* --------------------------------------------------------------- helpers
Pats(n) == [1 .. n -> BOOLEAN]

\* control after the emit_log calls of a step
After(pat, next) == IF EmitAll(pat) THEN next ELSE "aborted"

Emitted(r, pat) ==
  emitFailed' = [emitFailed EXCEPT ![r] = @ \/ AnyFailed(pat)]

Goto(r, pat, next) == pc' = [pc EXCEPT ![r] = After(pat, next)]

Return(r, pat, res) ==
  /\ Goto(r, pat, "done")
  /\ response' = [response EXCEPT ![r] = Some(res)]

Enter(r, stage) == stages' = [stages EXCEPT ![r] = Append(@, stage)]

\* --------------------------------------------------------------- actions
\* lines 54-66, 157-196: unwrap the center, announce, allocate the cells,
\* register the closures and start running the script
Invoke(r) ==
  /\ r \in active
  /\ pc[r] = "idle"
  /\ \E pat \in Pats(1) :
       /\ Emitted(r, pat)
       /\ Goto(r, pat, "run")
  /\ out' = [out EXCEPT ![OutCell(r)] = None]
  /\ scl' = [scl EXCEPT ![ScaleCell(r)] = 1]
  /\ ip' = [ip EXCEPT ![r] = 1]
  /\ Enter(r, "script")
  /\ UNCHANGED << inputs, root, factor, shape, octree, mesh, response >>

\* line 196 with the closures of lines 165-192: the script makes its next
\* capability call; an error it does not catch ends engine.run, and
\* compile_script answers at lines 71-80
ScriptStep(r) ==
  /\ pc[r] = "run"
  /\ ip[r] <= Len(req[r].code)
  /\ LET c == req[r].code[ip[r]]
         d == draw(out[OutCell(r)], c.arg)
         s == set_scale(scl[ScaleCell(r)], c.arg)
         res == IF c.fn = "draw" THEN d.res ELSE s.res
     IN /\ out' = IF c.fn = "draw"
                  THEN [out EXCEPT ![OutCell(r)] = d.out] ELSE out
        /\ scl' = IF c.fn = "set_scale"
                  THEN [scl EXCEPT ![ScaleCell(r)] = s.scale] ELSE scl
        /\ IF res = "ok" \/ c.caught
           THEN /\ ip' = [ip EXCEPT ![r] = @ + 1]
                /\ UNCHANGED << pc, response, emitFailed >>
           ELSE /\ \E pat \in Pats(1) :
                     /\ Emitted(r, pat)
                     /\ Return(r, pat,
                          ScriptErrorResult(
                            Format("Script compilation failed", res)))
                /\ UNCHANGED ip
  /\ UNCHANGED << inputs, root, factor, shape, octree, mesh, stages >>

\* lines 198-215 and 66-81: the script ran to its end
ScriptEnd(r) ==
  /\ pc[r] = "run"
  /\ ip[r] > Len(req[r].code)
  /\ LET x == ExtractResult(out[OutCell(r)], scl[ScaleCell(r)])
     IN /\ out' = [out EXCEPT ![OutCell(r)] = None]
        /\ \E pat \in Pats(1) :
             /\ Emitted(r, pat)
             /\ IF x.ok
                THEN /\ root' = [root EXCEPT ![r] = Some(x.root)]
                     /\ factor' = [factor EXCEPT ![r] = Some(x.scale)]
                     /\ Goto(r, pat, "shape")
                     /\ UNCHANGED response
                ELSE /\ Return(r, pat,
                          ScriptErrorResult(
                            Format("Script compilation failed", x.err)))
                     /\ UNCHANGED << root, factor >>
  /\ UNCHANGED << inputs, ip, scl, shape, octree, mesh, stages >>

\* lines 83-99: VmShape::new; the error is not followed by any other stage
BuildShapeFallthrough(r) ==
  /\ pc[r] = "shape"
  /\ Enter(r, "shape")
  /\ shape' = [shape EXCEPT ![r] = Some([tree |-> Unwrap(root[r]),
                                          t |-> Identity])]
  /\ \E pat \in Pats(1) :
       /\ Emitted(r, pat)
       /\ Goto(r, pat, "transform")
  /\ response' =
       IF env[r].shapeOk THEN response
       ELSE [response EXCEPT ![r] =
               Some(ShapeErrorResult(
                      Format("Shape creation failed", "bad graph")))]
  /\ UNCHANGED << inputs, ip, out, scl, root, factor, octree, mesh >>

BuildShape(r) ==
  /\ pc[r] = "shape"
  /\ Enter(r, "shape")
  /\ \E pat \in Pats(1) :
       /\ Emitted(r, pat)
       /\ IF env[r].shapeOk
          THEN /\ shape' = [shape EXCEPT ![r] =
                              Some([tree |-> Unwrap(root[r]),
                                    t |-> Identity])]
               /\ Goto(r, pat, "transform")
               /\ UNCHANGED response
          ELSE /\ Return(r, pat,
                    ShapeErrorResult(
                      Format("Shape creation failed", "bad graph")))
               /\ UNCHANGED shape
  /\ UNCHANGED << inputs, ip, out, scl, root, factor, octree, mesh >>

\* lines 101-107: one matrix from the bound scale and the center
ApplyTransform(r) ==
  /\ pc[r] = "transform"
  /\ Enter(r, "transform")
  /\ LET center == UnwrapOr(req[r].center, DefaultCenter)
         t == MakeTransform(Unwrap(factor[r]), center)
     IN shape' = [shape EXCEPT ![r] =
                    Some([tree |-> Unwrap(@).tree,
                          t |-> MatMul(Unwrap(@).t, t)])]
  /\ \E pat \in Pats(1) :
       /\ Emitted(r, pat)
       /\ Goto(r, pat, "octree")
  /\ UNCHANGED << inputs, ip, out, scl, root, factor, octree, mesh,
                  response >>

\* lines 109-119
BuildOctree(r) ==
  /\ pc[r] = "octree"
  /\ Enter(r, "octree")
  /\ octree' = [octree EXCEPT ![r] =
                  Some(OctreeBuild(Unwrap(shape[r]), req[r].depth))]
  /\ \E pat \in Pats(2) :
       /\ Emitted(r, pat)
       /\ Goto(r, pat, "mesh")
  /\ UNCHANGED << inputs, ip, out, scl, root, factor, shape, mesh,
                  response >>

\* lines 121-125
WalkDual(r) ==
  /\ pc[r] = "mesh"
  /\ Enter(r, "mesh")
  /\ mesh' = [mesh EXCEPT ![r] = Some(WalkDualOf(Unwrap(octree[r])))]
  /\ \E pat \in Pats(2) :
       /\ Emitted(r, pat)
       /\ Goto(r, pat, "export")
  /\ UNCHANGED << inputs, ip, out, scl, root, factor, shape, octree,
                  response >>

\* lines 127-153 and 218-224
ExportStl(r) ==
  /\ pc[r] = "export"
  /\ Enter(r, "export")
  /\ LET m == Unwrap(mesh[r])
         triangle_count == m.triangles
     IN IF env[r].exportOk
        THEN \E pat \in Pats(3) :
               /\ Emitted(r, pat)
               /\ Return(r, pat, SuccessResult(WriteStl(m), triangle_count))
        ELSE \E pat \in Pats(2) :
               /\ Emitted(r, pat)
               /\ Return(r, pat,
                    ExportErrorResult(triangle_count,
                      Format("STL export failed",
                             "Failed to write STL data")))
  /\ UNCHANGED << inputs, ip, out, scl, root, factor, shape, octree, mesh >>

Next ==
  \E r \in Reqs :
    \/ Invoke(r)
    \/ ScriptStep(r)
    \/ ScriptEnd(r)
    \/ BuildShape(r)
    \/ ApplyTransform(r)
    \/ BuildOctree(r)
    \/ WalkDual(r)
    \/ ExportStl(r)

Spec == Init /\ [][Next]_vars

SpecConc == InitConc /\ [][Next]_vars

\* ------------------------------------------------ a request run by itself
\* engine.run over the calls from index i on, on private cells
RECURSIVE RunFrom(_, _, _, _)
RunFrom(code, i, slot, cell) ==
  IF i > Len(code) THEN [err |-> None, out |-> slot, scale |-> cell]
  ELSE LET c == code[i]
           d == draw(slot, c.arg)
           s == set_scale(cell, c.arg)
           res == IF c.fn = "draw" THEN d.res ELSE s.res
           slot2 == IF c.fn = "draw" THEN d.out ELSE slot
           cell2 == IF c.fn = "set_scale" THEN s.scale ELSE cell
       IN IF res = "ok" \/ c.caught
          THEN RunFrom(code, i + 1, slot2, cell2)
          ELSE [err |-> Some(res), out |-> slot2, scale |-> cell2]

RunAlone(code) == RunFrom(code, 1, None, 1)

\* the MeshResult of request r when nothing else runs and every notice
\* is delivered
ExpectedResult(r) ==
  LET run == RunAlone(req[r].code)
      x == ExtractResult(run.out, run.scale)
      center == UnwrapOr(req[r].center, DefaultCenter)
      sh == [tree |-> x.root, t |-> MatMul(Identity,
                                          MakeTransform(x.scale, center))]
      m == WalkDualOf(OctreeBuild(sh, req[r].depth))
  IN IF IsSome(run.err)
     THEN ScriptErrorResult(Format("Script compilation failed",
                                   Unwrap(run.err)))
     ELSE IF ~x.ok
     THEN ScriptErrorResult(Format("Script compilation failed", x.err))
     ELSE IF ~env[r].shapeOk
     THEN ShapeErrorResult(Format("Shape creation failed", "bad graph"))
     ELSE IF ~env[r].exportOk
     THEN ExportErrorResult(m.triangles,
            Format("STL export failed", "Failed to write STL data"))
     ELSE SuccessResult(WriteStl(m), m.triangles)

StageOrder == << "script", "shape", "transform", "octree", "mesh", "export" >>

ExpectedStages(r) ==
  LET run == RunAlone(req[r].code)
  IN IF IsSome(run.err) \/ ~IsSome(run.out) THEN SubSeq(StageOrder, 1, 1)
     ELSE IF ~env[r].shapeOk THEN SubSeq(StageOrder, 1, 2)
     ELSE StageOrder

\* ------------------------------------------------- vocabulary of the claims
Min(a, b) == IF a < b THEN a ELSE b

\* indices of the capability calls the script of r has made so far
Made(r) ==
  IF pc[r] = "idle" THEN {}
  ELSE IF pc[r] = "run" THEN 1 .. (ip[r] - 1)
  ELSE 1 .. Min(ip[r], Len(req[r].code))

\* the draw calls made with a shape as argument
DrawCalls(r) ==
  {i \in Made(r) :
     req[r].code[i].fn = "draw" /\ req[r].code[i].arg.kind = "tree"}

RanToCompletion(r) == pc[r] # "idle" /\ pc[r] # "run" /\ ip[r] > Len(req[r].code)

Returned(r) == pc[r] = "done" /\ IsSome(response[r])

Resp(r) == Unwrap(response[r])

ErrorIs(r, prefix, class) ==
  /\ IsSome(Resp(r).error)
  /\ Unwrap(Resp(r).error) = Format(prefix, class)

ErrorFrom(r, prefix) ==
  /\ IsSome(Resp(r).error)
  /\ Unwrap(Resp(r).error)[1] = prefix

\* C1: a script whose execution calls draw (with a shape) two or more times
\* gets success = false, the MultipleOutputs message and no stl_data,
\* whatever else the script does around the second call.
C1_TwoDrawsFail ==
  \A r \in Reqs :
    (Returned(r) /\ Cardinality(DrawCalls(r)) >= 2) =>
      /\ Resp(r).success = FALSE
      /\ ErrorIs(r, "Script compilation failed", MultipleOutputs)
      /\ Resp(r).stl_data = None

\* C2: a script that runs to completion without calling draw gets
\* success = false, the NoOutputProduced message, no stl_data, and no
\* octree, mesh or export stage runs.
C2_NoDrawFails ==
  \A r \in Reqs :
    (RanToCompletion(r) /\ \A i \in DOMAIN req[r].code :
                             req[r].code[i].fn # "draw") =>
      /\ Returned(r)
      /\ Resp(r).success = FALSE
      /\ ErrorIs(r, "Script compilation failed", NoOutputProduced)
      /\ Resp(r).stl_data = None
      /\ \A k \in DOMAIN stages[r] :
           stages[r][k] \notin {"octree", "mesh", "export"}

C2_Witness ==
  /\ RanToCompletion("r1")
  /\ Returned("r1")
  /\ Len(req["r1"].code) = 2
  /\ \A i \in DOMAIN req["r1"].code : req["r1"].code[i].fn = "set_scale"
  /\ scl[ScaleCell("r1")] = 2

\* C3: in every response stl_data is present iff success, and error is
\* present iff not success.
C3_ResponseShape ==
  \A r \in Reqs :
    IsSome(response[r]) =>
      /\ IsSome(Resp(r).stl_data) <=> Resp(r).success
      /\ IsSome(Resp(r).error) <=> ~Resp(r).success

C3_Witness ==
  /\ Returned("r1")
  /\ Resp("r1").success
  /\ IsSome(Resp("r1").stl_data)
  /\ Unwrap(Resp("r1").stl_data).count > 0

\* C4: triangle_count is present exactly when the mesh stage has run, and
\* then equals the triangle count of the extracted mesh, on success and on
\* export failure alike.
C4_TriangleCount ==
  \A r \in Reqs :
    Returned(r) =>
      /\ IsSome(Resp(r).triangle_count)
           <=> (\E k \in DOMAIN stages[r] : stages[r][k] = "mesh")
      /\ IsSome(Resp(r).triangle_count) =>
           /\ IsSome(mesh[r])
           /\ Unwrap(Resp(r).triangle_count) = Unwrap(mesh[r]).triangles

C4_Witness ==
  /\ Returned("r1")
  /\ ~Resp("r1").success
  /\ ErrorFrom("r1", "STL export failed")
  /\ IsSome(Resp("r1").triangle_count)
  /\ Unwrap(Resp("r1").triangle_count) > 0

\* the output scale a script leaves: its last set_scale with a float, or 1
RECURSIVE ScriptScale(_, _)
ScriptScale(code, n) ==
  IF n = 0 THEN 1
  ELSE IF code[n].fn = "set_scale" /\ code[n].arg.kind = "float"
       THEN code[n].arg.num
       ELSE ScriptScale(code, n - 1)

\* C5: the scale factor fed into the transform is the request scale (1 when
\* absent) composed with the output scale of the script (1 when never set).
C5_ScaleComposed ==
  \A r \in Reqs :
    (IsSome(shape[r]) /\ pc[r] \in {"octree", "mesh", "export", "done"}) =>
      Unwrap(shape[r]).t =
        MakeTransform(
          UnwrapOr(req[r].scale, 1)
            * ScriptScale(req[r].code, Len(req[r].code)),
          UnwrapOr(req[r].center, DefaultCenter))

\* C6: whatever notices fail to be delivered, the call is never cut short
\* and returns the response, after the stages, of the run in which every
\* notice is delivered.
C6_EmitFailureHarmless ==
  \A r \in Reqs :
    /\ pc[r] # "aborted"
    /\ pc[r] = "done" =>
         /\ response[r] = Some(ExpectedResult(r))
         /\ stages[r] = ExpectedStages(r)

C6_Witness ==
  /\ pc["r1"] = "done"
  /\ emitFailed["r1"]
  /\ Resp("r1").success
  /\ Len(stages["r1"]) = 6

IsPrefix(s, t) == Len(s) <= Len(t) /\ s = SubSeq(t, 1, Len(s))

\* C7: stages run in the fixed order and a failure stops the run there:
\* nothing follows a script error, nothing follows a shape-build error,
\* and no stage is entered twice.
C7_StageOrder ==
  \A r \in Reqs :
    /\ IsPrefix(stages[r], StageOrder)
    /\ IsSome(response[r]) =>
         /\ pc[r] = "done"
         /\ ErrorFrom(r, "Script compilation failed") =>
              stages[r] = << "script" >>
         /\ ErrorFrom(r, "Shape creation failed") =>
              stages[r] = << "script", "shape" >>

C7_Witness ==
  /\ Returned("r1")
  /\ ErrorFrom("r1", "Shape creation failed")
  /\ stages["r1"] = << "script", "shape" >>

Double(vs) == {[i \in 1 .. 3 |-> 2 * p[i]] : p \in vs}

\* the mesh of request r had its scale factor been s
MeshAtScale(r, s) ==
  WalkDualOf(
    OctreeBuild([tree |-> Unwrap(root[r]),
                 t |-> MakeTransform(s,
                         UnwrapOr(req[r].center, DefaultCenter))],
                req[r].depth))

\* the centred surface, scaled by s, lies inside the sampled domain
Fits(r, s) ==
  LET c == UnwrapOr(req[r].center, DefaultCenter)
  IN \A q \in Surface(Unwrap(root[r])) :
       \A i \in 1 .. 3 :
         /\ s * (q[i] + c[i]) <= DomainHalf
         /\ s * (q[i] + c[i]) >= 0 - DomainHalf

PrefixRun(r, n) == RunAlone(SubSeq(req[r].code, 1, n))

\* C9: the slot and the scale cell belong to one compile_rhai_script call:
\* under any interleaving of two requests each one's cells, while its
\* script runs, and its response are those of the request run alone.
C9_CellsPerCall ==
  \A r \in Reqs :
    /\ pc[r] = "run" =>
         /\ out[OutCell(r)] = PrefixRun(r, ip[r] - 1).out
         /\ scl[ScaleCell(r)] = PrefixRun(r, ip[r] - 1).scale
    /\ pc[r] = "done" => response[r] = Some(ExpectedResult(r))

C9_Witness ==
  /\ pc["r1"] = "run"
  /\ pc["r2"] = "run"
  /\ out[OutCell("r1")] = Some("A")
  /\ out[OutCell("r2")] = Some("B")
  /\ scl[ScaleCell("r1")] = 2
  /\ scl[ScaleCell("r2")] = 1

\* the shape of the first draw call among the first n calls that was made
\* with a shape
FirstDrawn(code, n) ==
  LET ds == {i \in 1 .. n :
               code[i].fn = "draw" /\ code[i].arg.kind = "tree"}
  IN IF ds = {} THEN None
     ELSE Some(code[CHOOSE i \in ds : \A j \in ds : i <= j].arg.tree)

\* C10: the slot is write-once within a run: after any sequence of draw
\* calls it holds the shape of the first successful one (or nothing), and
\* the shape compile_rhai_script imports on success is that first shape.
C10_SlotWriteOnce ==
  \A r \in Reqs :
    /\ pc[r] = "run" => out[OutCell(r)] = FirstDrawn(req[r].code, ip[r] - 1)
    /\ IsSome(root[r]) =>
         root[r] = FirstDrawn(req[r].code, Len(req[r].code))

C10_Witness ==
  /\ IsSome(root["r1"])
  /\ \E i, j \in DOMAIN req["r1"].code :
       /\ i < j
       /\ req["r1"].code[i].fn = "draw"
       /\ req["r1"].code[j].fn = "draw"
       /\ req["r1"].code[i].arg.kind = "tree"
       /\ req["r1"].code[j].arg.kind = "tree"
       /\ req["r1"].code[i].arg.tree # req["r1"].code[j].arg.tree
       /\ root["r1"] = Some(req["r1"].code[i].arg.tree)

====
